---------------------------- MODULE Spec2Model ----------------------------
(***************************************************************************)
(* A model of wiretap's three core subsystems:                             *)
(*   - the static mock matcher and handler   (package staticMock),         *)
(*   - the upstream call with Referer rewrite and Set-Cookie promotion     *)
(*     (daemon, callAPI and wiretapTransport),                             *)
(*   - the validator adapter and the validation report streamer (daemon,   *)
(*     validate.go and stream_output.go).                                  *)
(* Each subsystem has its own specification (SpecMock, SpecMatch, SpecApi, *)
(* SpecStream); the variables of the other subsystems stay at their        *)
(* initial values under it.                                                *)
(***************************************************************************)
EXTENDS Integers, Sequences, FiniteSets, TLC

VARIABLES
    \* ---- static mock service (package staticMock) ----
    mockDefinitions,  \* sms.mockDefinitions: the ordered mock definitions
    mphase,           \* "ready" | "handled": position of the mock handler
    received,         \* the request as it was received by handleStaticMockRequest
    synth,            \* what getStaticMockResponse does for it: NoPanic, or its panic
    request,          \* the same request after the handler ran (its body reader moved)
    matched,          \* index checkStaticMockExists returned (0: nil), -1: it panicked
    recovered,        \* the panic value the deferred recover() saw, or NoPanic
    delivered,        \* downstream hand-offs made by the handler, in order
    escaped,          \* TRUE when a panic left handleStaticMockRequest
    sink,             \* what the downstream hand-offs do: return, or the panic raised
    \* ---- a single isRequestMatch evaluation ----
    probeMock,        \* the selector under evaluation
    probeReq,         \* the request it is evaluated against
    probeRes,         \* the verdict of isRequestMatch, or "unset"
    \* ---- callAPI (daemon) ----
    apiPc,            \* per invocation: "idle" | "inflight" | "done"
    apiReq,           \* per invocation: the request callAPI was given
    newReq,           \* per invocation: the request handed to client.Do
    trOf,             \* per invocation: the transport newWiretapTransport returned
    capturedCookieHeaders, \* per transport: wiretapTransport.capturedCookieHeaders
    nextTr,           \* the next transport the allocator hands out
    chain,            \* per invocation: the Set-Cookie values of each round trip so far
    apiResult,        \* per invocation: what callAPI returned
    \* ---- report streamer (daemon, stream_output.go) ----
    reportFile,       \* ws.reportFile: the configured name and its {...} pattern
    stream,           \* ws.stream
    now,              \* the wall clock, to the second, as read in time.Local
    location,         \* time.Local: the zone the wall clock is read in
    ticks,            \* seconds elapsed since the start
    spc,              \* streamer: "start" | "running" | "failed" | "exited"
    f,                \* the handle the consumer goroutine writes to (0: nil)
    rotateAt,         \* when rolloverChan fires, NoTime for the nil channel
    handles,          \* every handle opened so far: [name, closes]
    files,            \* the file system: name -> content (a sequence of bytes)
    streamChan,       \* ws.streamChan: the batches in the channel, oldest first
    streamViolations, \* ws.streamViolations
    writes,           \* history: where each batch went [sentAt, name, rotateAt]
    written,          \* history: name -> number of violations put in the file
    \* ---- validator adapter (daemon, validate.go) ----
    vpc,              \* per call: "idle" | "send" | "done"
    vin,              \* per call: what the validator does (its errors, or a panic)
    vout,             \* per call: the events of the call and what it returned
    transactionStore, \* ws.transactionStore: request id -> the last value put
    \* ---- a snapshot reader of ws.streamViolations ----
    snapshot          \* what the latest snapshot read observed

mockVars == <<mockDefinitions, mphase, received, synth, request, matched, recovered,
              delivered, escaped, sink>>
probeVars == <<probeMock, probeReq, probeRes>>
streamVars == <<reportFile, stream, now, location, ticks, spc, f, rotateAt, handles, files,
                streamChan, streamViolations, writes, written>>
validateVars == <<vpc, vin, vout, transactionStore>>
readerVars == <<snapshot>>
apiVars == <<apiPc, apiReq, newReq, trOf, capturedCookieHeaders, nextTr, chain,
             apiResult>>

-----------------------------------------------------------------------------
(* JSON-like values (Go's interface{} after json.Unmarshal), tagged.        *)

JNil == [t |-> "nil", v |-> <<>>]
JStr(s) == [t |-> "string", v |-> s]
JNum(n) == [t |-> "number", v |-> n]
JObj(fields) == [t |-> "object", v |-> fields]
JArr(s) == [t |-> "array", v |-> s]

\* shared.IsSubset: structural containment (spec section 4.1).
RECURSIVE IsSubset(_, _)
IsSubset(sub, full) ==
    IF sub.t = "object" /\ full.t = "object"
    THEN \A k \in DOMAIN sub.v :
            k \in DOMAIN full.v /\ IsSubset(sub.v[k], full.v[k])
    ELSE IF sub.t = "array" /\ full.t = "array"
    THEN \A i \in DOMAIN sub.v :
            \E j \in DOMAIN full.v : IsSubset(sub.v[i], full.v[j])
    ELSE IF sub.t = full.t /\ sub.t \in {"string", "number", "nil"}
    THEN sub.v = full.v
    ELSE FALSE

\* ASCII lower-casing of the host and path strings the model uses.
Lower(s) ==
    CASE s = "API.TEST" -> "api.test"
      [] s = "/A" -> "/a"
      [] OTHER -> s

\* shared.StringCompare: ASCII case-insensitive equality (spec section 4.1).
StringCompare(a, b) == Lower(a) = Lower(b)

-----------------------------------------------------------------------------
(* Panic values.                                                            *)

NoPanic == [kind |-> "none", text |-> ""]
PanicError(msg) == [kind |-> "error", text |-> msg]
PanicString(msg) == [kind |-> "string", text |-> msg]

ReadErrText == "unexpected EOF"
SyntaxErrText == "invalid character"

-----------------------------------------------------------------------------
(* The incoming http.Request.  body is what its Body reader still yields;   *)
(* bodyErr says that reading the Body fails.                                *)

\* encoding/json.Unmarshal on the body bytes the model uses.
JsonUnmarshal(b) ==
    CASE b = "{\"x\":1}" -> [ok |-> TRUE, val |-> JObj("x" :> JNum(1))]
      [] b = "{\"x\":1,\"y\":2}" ->
            [ok |-> TRUE, val |-> JObj(("x" :> JNum(1)) @@ ("y" :> JNum(2)))]
      [] b = "[1,2]" -> [ok |-> TRUE, val |-> JArr(<<JNum(1), JNum(2)>>)]
      [] OTHER -> [ok |-> FALSE, val |-> JNil]

\* io.ReadAll(request.Body): everything the reader still holds; the reader is
\* left at its end.
ReadAll(req) ==
    IF req.bodyErr
    THEN [err |-> TRUE, bytes |-> "", req |-> [req EXCEPT !.body = ""]]
    ELSE [err |-> FALSE, bytes |-> req.body, req |-> [req EXCEPT !.body = ""]]

\* http.Header.Get: the first value of the key, "" when there is none.
HeaderGet(h, key) ==
    IF key \in DOMAIN h /\ Len(h[key]) > 0 THEN h[key][1] ELSE ""

\* incoming.Header[key] / incomingQueries[key]: nil (no values) for a missing key.
Values(h, key) == IF key \in DOMAIN h THEN h[key] ELSE <<>>

\* transStrArrToInterfaceArr
transStrArrToInterfaceArr(strArr) ==
    JArr([i \in DOMAIN strArr |-> JStr(strArr[i])])

\* getBodyFromHttpRequest: read, restore, parse.  A read or a parse error panics.
getBodyFromHttpRequest(req) ==
    LET rd == ReadAll(req)
        restored == [req EXCEPT !.body = rd.bytes]
    IN  IF rd.err
        THEN [panic |-> PanicError(ReadErrText), val |-> JNil, req |-> rd.req]
        ELSE IF rd.bytes = ""
        THEN [panic |-> NoPanic, val |-> JNil, req |-> restored]
        ELSE LET u == JsonUnmarshal(rd.bytes)
             IN  IF u.ok
                 THEN [panic |-> NoPanic, val |-> u.val, req |-> restored]
                 ELSE [panic |-> PanicError(SyntaxErrText), val |-> JNil,
                       req |-> restored]

\* The verdict record of the comparison functions: res is "match", "miss" or
\* "panic"; req is the request afterwards.
Verdict(res, req, panic) == [res |-> res, req |-> req, panic |-> panic]

\* compareJsonBody without the Content-Type requirement.
CompareJsonBodyAnyContentType(mock, req) ==
    LET b == getBodyFromHttpRequest(req)
    IN  IF b.panic.kind # "none"
        THEN Verdict("panic", b.req, b.panic)
        ELSE Verdict(IF IsSubset(mock.Body, b.val) THEN "match" ELSE "miss",
                     b.req, NoPanic)

\* compareJsonBody
compareJsonBody(mock, req) ==
    IF HeaderGet(req.Header, "Content-Type") # "application/json"
    THEN Verdict("miss", req, NoPanic)
    ELSE LET b == getBodyFromHttpRequest(req)
         IN  IF b.panic.kind # "none"
             THEN Verdict("panic", b.req, b.panic)
             ELSE Verdict(IF IsSubset(mock.Body, b.val) THEN "match" ELSE "miss",
                          b.req, NoPanic)

\* One entry of compareHeaders / compareQueryParams: the type switch on the value.
EntryHolds(value, incoming) ==
    CASE value.t = "string" ->
            IsSubset(JArr(<<value>>), transStrArrToInterfaceArr(incoming))
      [] value.t = "array" ->
            IsSubset(value, transStrArrToInterfaceArr(incoming))
      [] OTHER -> TRUE

\* compareHeaders
compareHeaders(mockHeaders, req) ==
    \A key \in DOMAIN mockHeaders :
        EntryHolds(mockHeaders[key], Values(req.Header, key))

\* compareQueryParams
compareQueryParams(mockQueryParams, incomingQueries) ==
    \A key \in DOMAIN mockQueryParams :
        EntryHolds(mockQueryParams[key], Values(incomingQueries, key))

\* compareBody: the switch on the type of mock.Body.
compareBody(mock, req) ==
    CASE mock.Body.t = "string" ->
            LET rd == ReadAll(req)
            IN  IF rd.err
                THEN Verdict("panic", rd.req, PanicError(ReadErrText))
                ELSE Verdict(IF rd.bytes # mock.Body.v THEN "miss" ELSE "match",
                             rd.req, NoPanic)
      [] mock.Body.t \in {"object", "array"} -> compareJsonBody(mock, req)
      [] OTHER -> Verdict("miss", req, NoPanic)

\* A mock selector field that is absent: Host/UrlPath "", Header/QueryParams/Body nil.
Absent == [t |-> "absent", v |-> <<>>]

\* isRequestMatch with the Host selector compared even when it is not defined.
IsRequestMatchHostRequired(mock, req) ==
    IF ~StringCompare(mock.Host, req.Host)
    THEN Verdict("miss", req, NoPanic)
    ELSE IF req.Method # mock.Method
    THEN Verdict("miss", req, NoPanic)
    ELSE IF mock.UrlPath # "" /\ ~StringCompare(mock.UrlPath, req.Path)
    THEN Verdict("miss", req, NoPanic)
    ELSE IF mock.Header.t # "absent" /\ ~compareHeaders(mock.Header.v, req)
    THEN Verdict("miss", req, NoPanic)
    ELSE IF mock.QueryParams.t # "absent"
            /\ ~compareQueryParams(mock.QueryParams.v, req.Query)
    THEN Verdict("miss", req, NoPanic)
    ELSE IF mock.Body.t # "absent"
    THEN compareBody(mock, req)
    ELSE Verdict("match", req, NoPanic)

\* isRequestMatch
isRequestMatch(mock, req) ==
    IF mock.Host # "" /\ ~StringCompare(mock.Host, req.Host)
    THEN Verdict("miss", req, NoPanic)
    ELSE IF req.Method # mock.Method
    THEN Verdict("miss", req, NoPanic)
    ELSE IF mock.UrlPath # "" /\ ~StringCompare(mock.UrlPath, req.Path)
    THEN Verdict("miss", req, NoPanic)
    ELSE IF mock.Header.t # "absent" /\ ~compareHeaders(mock.Header.v, req)
    THEN Verdict("miss", req, NoPanic)
    ELSE IF mock.QueryParams.t # "absent"
            /\ ~compareQueryParams(mock.QueryParams.v, req.Query)
    THEN Verdict("miss", req, NoPanic)
    ELSE IF mock.Body.t # "absent"
    THEN compareBody(mock, req)
    ELSE Verdict("match", req, NoPanic)

\* The loop of checkStaticMockExists from definition i on: the first match wins,
\* a panic ends it, and each evaluation hands the request on as it left it.
RECURSIVE CheckFrom(_, _, _)
CheckFrom(defs, i, req) ==
    IF i > Len(defs)
    THEN [idx |-> 0, req |-> req, panic |-> NoPanic]
    ELSE LET r == isRequestMatch(defs[i].Request, req)
         IN  IF r.res = "panic" THEN [idx |-> -1, req |-> r.req, panic |-> r.panic]
             ELSE IF r.res = "match"
             THEN [idx |-> i, req |-> r.req, panic |-> NoPanic]
             ELSE CheckFrom(defs, i + 1, r.req)

\* checkStaticMockExists
checkStaticMockExists(defs, req) == CheckFrom(defs, 1, req)

-----------------------------------------------------------------------------
(* The mock handler.                                                        *)

\* shared.GenerateError / shared.MarshalError: the structured error body
\* (spec section 4.3: fields message, code, type, detail, cause).
GenerateError(message, code, type, detail, cause) ==
    [message |-> message, code |-> code, type |-> type, detail |-> detail,
     cause |-> cause]

InternalServerError == 500

\* The response the deferred recover() of handleStaticMockRequest builds from
\* the panic value r.
ErrorResponse(r) ==
    LET errorMessage == IF r.kind = "error" /\ r.text # ""
                        THEN r.text
                        ELSE "Error in static mock handler"
    IN  [call |-> "HandleStaticMockResponse",
         StatusCode |-> InternalServerError,
         Body |-> GenerateError(errorMessage, InternalServerError,
                                "Internal server error", "", r)]

\* getStaticMockResponse: the response synthesized from the template of the
\* matched definition (spec section 4.3).
getStaticMockResponse(def) ==
    [call |-> "HandleStaticMockResponse",
     StatusCode |-> def.Response.StatusCode,
     Body |-> def.Response.Body]

HandleHttpRequestCall == [call |-> "HandleHttpRequest", StatusCode |-> 0, Body |-> ""]

\* The outcome of the handler: what was found, what recover() saw, the
\* downstream calls made, and whether a panic left the handler.
Outcome(c, r, calls, esc) ==
    [matched |-> c.idx, request |-> c.req, recovered |-> r, delivered |-> calls,
     escaped |-> esc]

\* How the downstream behaves: direct is the panic raised by the hand-off the
\* handler makes itself (HandleHttpRequest, or HandleStaticMockResponse with the
\* mock response), inRecover the one raised by the HandleStaticMockResponse
\* call of the deferred recover; NoPanic when the call returns.
Sink(direct, inRecover) == [direct |-> direct, inRecover |-> inRecover]
SinksReturn == Sink(NoPanic, NoPanic)

HandleWithoutRecover(defs, req, synthPanic, sinks) ==
    LET c == checkStaticMockExists(defs, req)
    IN  IF c.idx = -1
        THEN Outcome(c, NoPanic, <<>>, TRUE)
        ELSE IF c.idx = 0
        THEN Outcome(c, NoPanic, <<HandleHttpRequestCall>>, sinks.direct.kind # "none")
        ELSE IF synthPanic.kind # "none"
        THEN Outcome(c, NoPanic, <<>>, TRUE)
        ELSE Outcome(c, NoPanic, <<getStaticMockResponse(defs[c.idx])>>,
                     sinks.direct.kind # "none")

\* The deferred recover() of handleStaticMockRequest on the panic value r,
\* after the hand-offs in calls: it hands the 500 response over; a panic of
\* that call leaves the handler.
Recovered(c, r, calls, sinks) ==
    Outcome(c, r, calls \o <<ErrorResponse(r)>>, sinks.inRecover.kind # "none")

\* handleStaticMockRequest.  synthPanic is the panic getStaticMockResponse
\* raises for this request, NoPanic when it returns.
handleStaticMockRequest(defs, req, synthPanic, sinks) ==
    LET c == checkStaticMockExists(defs, req)
    IN  IF c.idx = -1
        THEN Recovered(c, c.panic, <<>>, sinks)
        ELSE IF c.idx = 0
        THEN (IF sinks.direct.kind # "none"
              THEN Recovered(c, sinks.direct, <<HandleHttpRequestCall>>, sinks)
              ELSE Outcome(c, NoPanic, <<HandleHttpRequestCall>>, FALSE))
        ELSE IF synthPanic.kind # "none"
        THEN Recovered(c, synthPanic, <<>>, sinks)
        ELSE IF sinks.direct.kind # "none"
        THEN Recovered(c, sinks.direct, <<getStaticMockResponse(defs[c.idx])>>, sinks)
        ELSE Outcome(c, NoPanic, <<getStaticMockResponse(defs[c.idx])>>, FALSE)

-----------------------------------------------------------------------------
(* Inputs of the mock subsystem.                                            *)

MaxMocks == 2

Sel(host, method, path, header, query, body) ==
    [Host |-> host, Method |-> method, UrlPath |-> path, Header |-> header,
     QueryParams |-> query, Body |-> body]

JMap(entries) == [t |-> "map", v |-> entries]

Req(host, method, path, header, query, body, bodyErr) ==
    [Host |-> host, Method |-> method, Path |-> path, Header |-> header,
     Query |-> query, body |-> body, bodyErr |-> bodyErr]

\* Body selectors: nil, strings, a JSON object, a JSON array, an unsupported type.
BodySelectors ==
    {Absent, JStr("abc"), JStr("xyz"), JStr(""), JObj("x" :> JNum(1)),
     JArr(<<JNum(1)>>), JNum(5)}

\* The selectors the mock definition lists are drawn from.
ListSelectors ==
    {Sel("", "POST", "/A", Absent, Absent, b) : b \in BodySelectors}
    \cup {Sel("", "GET", "", JMap("Accept" :> JArr(<<JStr("application/json")>>)),
              Absent, Absent)}

MockDefs ==
    {[Request |-> sel, Response |-> [StatusCode |-> 200, Body |-> "mocked"]] :
        sel \in ListSelectors}

MockLists == UNION {[1..n -> MockDefs] : n \in 0..MaxMocks}

BodyBytes == {"", "abc", "{\"x\":1}", "{\"x\":1,\"y\":2}", "[1,2]", "{bad"}

ReqHeader(accept, contentType) ==
    ("Accept" :> accept) @@ ("Content-Type" :> <<contentType>>)

\* The requests handed to handleStaticMockRequest.
Requests ==
    {Req("api.test", "POST", "/a", ReqHeader(<<>>, ct), <<>>, b, FALSE) :
        ct \in {"application/json", "text/plain"}, b \in BodyBytes}
    \cup {Req("api.test", "POST", "/a", ReqHeader(<<>>, ct), <<>>, "abc", TRUE) :
            ct \in {"application/json", "text/plain"}}
    \cup {Req("api.test", "GET", "/a", ReqHeader(acc, "text/plain"), <<>>, "", FALSE) :
            acc \in {<<>>, <<"text/html", "application/json">>}}

\* What getStaticMockResponse may do: return, or panic with a string, an error,
\* or an error whose text is empty.
SynthPanics ==
    {NoPanic, PanicString("template"), PanicError("marshal failed"), PanicError("")}

NoRequest == Req("", "", "", <<>>, <<>>, "", FALSE)

\* The downstream behaviours explored: every hand-off returns, or a hand-off
\* panics with a runtime error (a nil dereference in the sink).
SinkPanic == PanicError("invalid memory address or nil pointer dereference")
SinkBehaviours ==
    {Sink(direct, inRecover) : direct \in {NoPanic, SinkPanic},
                               inRecover \in {NoPanic, SinkPanic}}

\* probeRes before isRequestMatch has been applied.
Unset == Verdict("unset", NoRequest, NoPanic)

(* A single evaluation of isRequestMatch, over a wider set of selectors.    *)

HeaderSelectors ==
    {Absent,
     JMap("Accept" :> JStr("application/json")),
     JMap(("Accept" :> JArr(<<JStr("application/json"), JStr("text/html")>>))
          @@ ("X-Id" :> JStr("7"))),
     JMap("Accept" :> JNum(1))}

QuerySelectors ==
    {Absent,
     JMap("q" :> JStr("1")),
     JMap(("q" :> JArr(<<JStr("1"), JStr("2")>>)) @@ ("r" :> JStr("x")))}

MatchSelectors ==
    {Sel(h, m, p, hd, q, b) :
        h \in {"", "API.TEST", "other.test"}, m \in {"GET", "POST"},
        p \in {"", "/A"}, hd \in HeaderSelectors, q \in QuerySelectors,
        b \in {Absent, JStr("abc"), JObj("x" :> JNum(1)), JArr(<<JNum(1)>>),
               JNum(5)}}

MatchReqHeaders ==
    {("Accept" :> <<"text/html", "application/json">>)
        @@ ("Content-Type" :> <<"application/json">>) @@ ("X-Id" :> <<"7">>),
     ("Accept" :> <<"application/json">>) @@ ("Content-Type" :> <<"text/plain">>),
     ("Content-Type" :> <<"application/json">>)}

MatchReqQueries ==
    {<<>>, ("q" :> <<"1">>), ("q" :> <<"2", "1">>) @@ ("r" :> <<"x">>)}

MatchRequests ==
    {Req(h, "POST", p, hd, q, b, FALSE) :
        h \in {"api.test", "else.test"}, p \in {"/a", "/b"},
        hd \in MatchReqHeaders, q \in MatchReqQueries,
        b \in {"abc", "{\"x\":1,\"y\":2}", "[1,2]", "{bad"}}
    \cup {Req("api.test", "GET", "/a", hd, <<>>, "", e) :
            hd \in MatchReqHeaders, e \in BOOLEAN}

-----------------------------------------------------------------------------
(* callAPI and the transport wrapper.                                       *)

\* The redirects client.Do follows in one invocation are capped at MaxHops.
MaxHops == 2

\* Two invocations of callAPI, which may overlap, and the transports they make.
ApiCalls == {1, 2}
Transports == {1, 2}

\* A URL, and the value of a header that is not set.
Url(scheme, host, port, path) ==
    [scheme |-> scheme, host |-> host, port |-> port, path |-> path]
NoUrl == Url("", "", "", "")

\* config.RedirectProtocol, config.RedirectHost, config.RedirectPort
RedirectConfig == [protocol |-> "https", host |-> "upstream.test", port |-> "8443"]

\* The request given to callAPI: its URL and the two headers callAPI looks at.
ApiRequest(url, referer, xOriginalReferer) ==
    [url |-> url, Referer |-> referer, XOriginalReferer |-> xOriginalReferer]

ClientUrl == Url("http", "localhost", "9090", "/pets")
RefererUrl == Url("http", "localhost", "9090", "/index")
StaleUrl == Url("http", "elsewhere.test", "80", "/old")

ApiRequests ==
    {ApiRequest(ClientUrl, NoUrl, NoUrl),
     ApiRequest(ClientUrl, NoUrl, StaleUrl),
     ApiRequest(ClientUrl, RefererUrl, NoUrl),
     ApiRequest(ClientUrl, RefererUrl, StaleUrl)}

\* reconstructURL: the URL of the request with protocol, host and port replaced
\* (spec section 4.4).
reconstructURL(req, protocol, host, port) == Url(protocol, host, port, req.url.path)

\* cloneRequest: a copy of the request with the URL redirected, headers kept
\* (spec section 4.4).
cloneRequest(req, protocol, host, port) ==
    [req EXCEPT !.url = reconstructURL(req, protocol, host, port)]

RewriteRefererOriginalLost(req, config) ==
    LET clone == cloneRequest(req, config.protocol, config.host, config.port)
        rewritten == [clone EXCEPT !.Referer =
                         reconstructURL(req, config.protocol, config.host, config.port)]
    IN  IF clone.Referer # NoUrl
        THEN [rewritten EXCEPT !.XOriginalReferer = rewritten.Referer]
        ELSE clone

\* callAPI, "re-write referer": the request handed to client.Do.
RewriteReferer(req, config) ==
    LET clone == cloneRequest(req, config.protocol, config.host, config.port)
    IN  IF clone.Referer # NoUrl
        THEN [clone EXCEPT
                !.XOriginalReferer = clone.Referer,
                !.Referer = reconstructURL(req, config.protocol, config.host,
                                           config.port)]
        ELSE clone

\* http.Header.Get("Set-Cookie") on a response: its first value, "" if none.
GetSetCookie(values) == IF Len(values) > 0 THEN values[1] ELSE ""

\* wiretapTransport.RoundTrip: the captured list after a round trip that
\* returned a response with these Set-Cookie values.
Capture(captured, values) ==
    IF GetSetCookie(values) # ""
    THEN Append(captured, GetSetCookie(values))
    ELSE captured

PromoteLastCaptured(captured, values) ==
    IF Len(captured) > 0 /\ GetSetCookie(values) = ""
    THEN <<captured[Len(captured)]>>
    ELSE values

\* callAPI after client.Do: the Set-Cookie values of the response it returns.
Promote(captured, values) ==
    IF Len(captured) > 0
    THEN IF GetSetCookie(values) = "" THEN <<captured[1]>> ELSE values
    ELSE values

\* One transport, and so one capture list, for all invocations.
NewTransportShared(next) == 1

\* newWiretapTransport: a transport of its own for every invocation.
NewTransport(next) == next

\* The Set-Cookie values an upstream response may carry.
SetCookieValues == {<<>>, <<"s=1">>, <<"t=2", "u=3">>}

NoResult == [returned |-> FALSE, err |-> FALSE, SetCookie |-> <<>>]

ApiIdle ==
    /\ apiPc = [c \in ApiCalls |-> "idle"]
    /\ apiReq = [c \in ApiCalls |-> ApiRequest(NoUrl, NoUrl, NoUrl)]
    /\ newReq = [c \in ApiCalls |-> ApiRequest(NoUrl, NoUrl, NoUrl)]
    /\ trOf = [c \in ApiCalls |-> 0]
    /\ capturedCookieHeaders = [t \in Transports |-> <<>>]
    /\ nextTr = 1
    /\ chain = [c \in ApiCalls |-> <<>>]
    /\ apiResult = [c \in ApiCalls |-> NoResult]

-----------------------------------------------------------------------------
(* Wall-clock time, to the second, in a location without zone changes.      *)

Time(Y, M, D, h, m, sec) == [Y |-> Y, M |-> M, D |-> D, h |-> h, m |-> m, s |-> sec]
NoTime == Time(0, 0, 0, 0, 0, 0)

IsLeap(Y) == (Y % 4 = 0 /\ Y % 100 # 0) \/ Y % 400 = 0

DaysIn(Y, M) ==
    IF M = 2 THEN (IF IsLeap(Y) THEN 29 ELSE 28)
    ELSE IF M \in {4, 6, 9, 11} THEN 30 ELSE 31

\* a is strictly before b.
Before(a, b) ==
    LET ka == <<a.Y, a.M, a.D, a.h, a.m, a.s>>
        kb == <<b.Y, b.M, b.D, b.h, b.m, b.s>>
    IN  \E i \in 1..6 : ka[i] < kb[i] /\ \A j \in 1..(i - 1) : ka[j] = kb[j]

\* minimumTimeUnit
SECOND == 0
MINUTE == 1
HOUR == 2
DAY == 3
MONTH == 4
YEAR == 5

\* The start of the next year, month, day, hour, minute, second after t.
NextYear(t) == Time(t.Y + 1, 1, 1, 0, 0, 0)
NextMonth(t) == IF t.M = 12 THEN Time(t.Y + 1, 1, 1, 0, 0, 0)
                ELSE Time(t.Y, t.M + 1, 1, 0, 0, 0)
NextDay(t) == IF t.D < DaysIn(t.Y, t.M) THEN Time(t.Y, t.M, t.D + 1, 0, 0, 0)
              ELSE NextMonth(t)
NextHour(t) == IF t.h < 23 THEN Time(t.Y, t.M, t.D, t.h + 1, 0, 0) ELSE NextDay(t)
NextMinute(t) == IF t.m < 59 THEN Time(t.Y, t.M, t.D, t.h, t.m + 1, 0)
                 ELSE NextHour(t)
NextSecond(t) == IF t.s < 59 THEN Time(t.Y, t.M, t.D, t.h, t.m, t.s + 1)
                 ELSE NextMinute(t)

\* time.Local as the model has it: UTC, a zone half an hour off the hour with
\* no daylight saving, and a zone with daylight saving on the day its clocks
\* are set back one hour (at 02:00; the model's clock starts later that day).
UTC == "UTC"
Kolkata == "Asia/Kolkata"
NewYork == "America/New_York"
IsFallBackDay(t) == t.Y = 2024 /\ t.M = 11 /\ t.D = 3

\* now.Truncate(time.Hour).Add(time.Hour), in wall-clock terms: Truncate works
\* on the time since the zero time (UTC), not on its presentation in the zone.
TruncateHourAddHour(t, loc) ==
    IF loc = Kolkata
    THEN IF t.m < 30 THEN Time(t.Y, t.M, t.D, t.h, 30, 0)
         ELSE [NextHour(t) EXCEPT !.m = 30]
    ELSE NextHour(t)

\* time.Date(y, m, d, 0, 0, 0, 0, loc).Add(24 * time.Hour), in wall-clock
\* terms: the day the clocks are set back has 25 hours.
DayStartAdd24Hours(t, loc) ==
    IF loc = NewYork /\ IsFallBackDay(t) THEN Time(t.Y, t.M, t.D, 23, 0, 0)
    ELSE NextDay(t)

\* calculateNextRollover
calculateNextRollover(smallestUnit, t, loc) ==
    CASE smallestUnit = SECOND -> [err |-> FALSE, next |-> NextSecond(t)]
      [] smallestUnit = MINUTE -> [err |-> FALSE, next |-> NextMinute(t)]
      [] smallestUnit = HOUR -> [err |-> FALSE, next |-> TruncateHourAddHour(t, loc)]
      [] smallestUnit = DAY -> [err |-> FALSE, next |-> DayStartAdd24Hours(t, loc)]
      [] smallestUnit = MONTH -> [err |-> FALSE, next |-> NextMonth(t)]
      [] smallestUnit = YEAR -> [err |-> FALSE, next |-> NextYear(t)]
      [] OTHER -> [err |-> TRUE, next |-> NoTime]

\* timeUnitMappings, in their order.  A pattern is a sequence of placeholder
\* tokens and literal pieces; a Go layout is the same with tokens replaced.
timeUnitMappings ==
    << [input |-> "YYYY", goFormat |-> "2006", unit |-> YEAR],
       [input |-> "YY", goFormat |-> "06", unit |-> YEAR],
       [input |-> "MM", goFormat |-> "01", unit |-> MONTH],
       [input |-> "DD", goFormat |-> "02", unit |-> DAY],
       [input |-> "HH", goFormat |-> "15", unit |-> HOUR],
       [input |-> "mm", goFormat |-> "04", unit |-> MINUTE],
       [input |-> "SS", goFormat |-> "05", unit |-> SECOND] >>

\* strings.Contains / strings.ReplaceAll on a pattern.
Contains(pattern, input) == \E i \in DOMAIN pattern : pattern[i] = input
ReplaceAll(pattern, input, goFormat) ==
    [i \in DOMAIN pattern |-> IF pattern[i] = input THEN goFormat ELSE pattern[i]]

\* The loop of convertPatternToGoTimeFormat from mapping k on.
RECURSIVE ConvertFrom(_, _, _)
ConvertFrom(k, formatted, smallestUnit) ==
    IF k > Len(timeUnitMappings)
    THEN [formatted |-> formatted, unit |-> smallestUnit]
    ELSE LET mp == timeUnitMappings[k]
         IN  IF Contains(formatted, mp.input)
             THEN ConvertFrom(k + 1, ReplaceAll(formatted, mp.input, mp.goFormat),
                              mp.unit)
             ELSE ConvertFrom(k + 1, formatted, smallestUnit)

\* convertPatternToGoTimeFormat
convertPatternToGoTimeFormat(pattern) ==
    LET r == ConvertFrom(1, pattern, YEAR)
    IN  IF r.formatted = pattern
        THEN [err |-> TRUE, formatted |-> <<>>, unit |-> 0]
        ELSE [err |-> FALSE, formatted |-> r.formatted, unit |-> r.unit]

\* time.Time.Format on one piece of a layout.
FormatPiece(piece, t) ==
    CASE piece = "2006" -> t.Y
      [] piece = "06" -> t.Y % 100
      [] piece = "01" -> t.M
      [] piece = "02" -> t.D
      [] piece = "15" -> t.h
      [] piece = "04" -> t.m
      [] piece = "05" -> t.s
      [] OTHER -> -1

\* time.Time.Format: the stamp that replaces the placeholder in the file name.
Format(layout, t) == [i \in DOMAIN layout |-> FormatPiece(layout[i], t)]

-----------------------------------------------------------------------------
(* The report file.                                                         *)

\* json.Marshal of a violation.
Marshal(v) == <<"{", v, "}">>

\* The bytes written for a batch: its violations, ",\n" between them.
RECURSIVE BatchBytes(_)
BatchBytes(violations) ==
    IF Len(violations) = 0 THEN <<>>
    ELSE IF Len(violations) = 1 THEN Marshal(violations[1])
    ELSE Marshal(violations[1]) \o <<",", "\n">> \o BatchBytes(Tail(violations))

SeparatorAlways(size) == size > 1

\* The test "fi.Size() > 2" that decides whether ",\n" is written first.
NeedsSeparator(size) == size > 2

\* The body of "case violations := <-ws.streamChan": the content of the file
\* after the batch has been appended.
AppendBatch(content, violations) ==
    LET size == Len(content)
        truncated == SubSeq(content, 1, size - 1)
        separated == IF NeedsSeparator(size) THEN truncated \o <<",", "\n">>
                     ELSE truncated
    IN  separated \o BatchBytes(violations) \o <<"]">>

\* ws.reportFile: placeholder says whether the name holds a {...}; pattern is
\* the text between the braces.
ReportFile(placeholder, pattern) == [placeholder |-> placeholder, pattern |-> pattern]

\* A file name: the configured name with the placeholder replaced by a stamp.
FileName(stamp) == [base |-> "report.json", stamp |-> stamp]

\* openReportFile that leaves a file of the configured name in place when the
\* name has no placeholder.
OpenReportFileWithoutRemove(rf, t, loc, fs, openOk) ==
    LET conv == convertPatternToGoTimeFormat(rf.pattern)
        name == IF rf.placeholder THEN FileName(Format(conv.formatted, t))
                ELSE FileName(<<>>)
        roll == calculateNextRollover(conv.unit, t, loc)
        rollover == IF rf.placeholder /\ ~roll.err THEN roll.next ELSE NoTime
        created == IF name \in DOMAIN fs THEN fs ELSE (name :> <<>>) @@ fs
        opened == IF Len(created[name]) = 0
                  THEN [created EXCEPT ![name] = <<"[", "]">>]
                  ELSE created
    IN  IF rf.placeholder /\ conv.err
        THEN [err |-> TRUE, name |-> name, rotateAt |-> NoTime, files |-> fs]
        ELSE IF ~openOk
        THEN [err |-> TRUE, name |-> name, rotateAt |-> NoTime, files |-> fs]
        ELSE [err |-> FALSE, name |-> name, rotateAt |-> rollover, files |-> opened]

\* openReportFile.  t is time.Now(); openOk says whether os.OpenFile succeeds.
\* The result: err, the name opened, when the rollover fires, the file system.
openReportFile(rf, t, loc, fs, openOk) ==
    LET conv == convertPatternToGoTimeFormat(rf.pattern)
        name == IF rf.placeholder THEN FileName(Format(conv.formatted, t))
                ELSE FileName(<<>>)
        roll == calculateNextRollover(conv.unit, t, loc)
        rollover == IF rf.placeholder /\ ~roll.err THEN roll.next ELSE NoTime
        removed == IF rf.placeholder THEN fs
                   ELSE [n \in (DOMAIN fs) \ {name} |-> fs[n]]
        created == IF name \in DOMAIN removed THEN removed
                   ELSE (name :> <<>>) @@ removed
        opened == IF Len(created[name]) = 0
                  THEN [created EXCEPT ![name] = <<"[", "]">>]
                  ELSE created
    IN  IF rf.placeholder /\ conv.err
        THEN [err |-> TRUE, name |-> name, rotateAt |-> NoTime, files |-> fs]
        ELSE IF ~openOk
        THEN [err |-> TRUE, name |-> name, rotateAt |-> NoTime, files |-> removed]
        ELSE [err |-> FALSE, name |-> name, rotateAt |-> rollover, files |-> opened]

\* Capacity of ws.streamChan: a send blocks while the channel holds this many
\* batches.
ChanCap == 1

\* Seconds the clock advances in a behaviour.
MaxTicks == 2

\* The rotations the model follows.
MaxRotations == 3

-----------------------------------------------------------------------------
(* The validator adapter.                                                   *)

\* The validation calls: ValidateRequest and ValidateResponse for request 1,
\* ValidateResponse for request 2.  They run as independent tasks.
VCalls == {1, 2, 3}
CallKind(c) == IF c = 1 THEN "request" ELSE "response"
CallId(c) == IF c = 3 THEN 2 ELSE 1

\* errors.ValidationError.IsPathMissingError
IsPathMissingError(e) == e = "p"

CleanedErrorsUnfiltered(validationErrors) == validationErrors

\* ValidateResponse: "wipe out any path not found errors".
CleanedErrors(validationErrors) ==
    SelectSeq(validationErrors, LAMBDA e : ~IsPathMissingError(e))

\* What the validator does in a call: the errors it yields, or the panic it
\* raises.
VInput(errs, panic) == [errs |-> errs, panic |-> panic]
NoInput == VInput(<<>>, NoPanic)

ErrorLists == {<<>>, <<"p">>, <<"a", "p", "b">>}

VInputs ==
    {VInput(e, NoPanic) : e \in ErrorLists}
    \cup {VInput(<<>>, PanicString("index out of range")),
          VInput(<<>>, PanicError("nil pointer dereference"))}

\* The message of the ValidationError the deferred recover() builds.
PanicMessage(kind, r) ==
    [prefix |-> IF kind = "response" THEN "Error validating response: "
                ELSE "Error validating request: ",
     text |-> r.text]

\* A call whose events are recorded with the broadcast ahead of the Put.
VOutBroadcastFirst(events, returned, result, esc) ==
    [events |-> [i \in 1..Len(events) |-> events[Len(events) + 1 - i]],
     returned |-> returned, result |-> result, escaped |-> esc]

\* What a call has done so far and what it returned.
VOut(events, returned, result, esc) ==
    [events |-> events, returned |-> returned, result |-> result, escaped |-> esc]
NoOut == VOut(<<>>, FALSE, <<>>, FALSE)

PutEvent(id, value) == [op |-> "Put", id |-> id, value |-> value, errors |-> <<>>]
SendEvent(batch) == [op |-> "send", id |-> 0, value |-> "", errors |-> batch]
BroadcastEvent(name, errors) == [op |-> name, id |-> 0, value |-> "", errors |-> errors]

\* The deferred recover() of ValidateRequest / ValidateResponse: r.(string)
\* holds only for a string; for any other value the assertion itself panics.
Recover(kind, r) ==
    IF r.kind = "string"
    THEN VOut(<<>>, TRUE, <<PanicMessage(kind, r)>>, FALSE)
    ELSE VOut(<<>>, TRUE, <<>>, TRUE)

\* The errors a call works with after the validator returned: filtered in
\* ValidateResponse, copied in ValidateRequest.
Cleaned(kind, validationErrors) ==
    IF kind = "response" THEN CleanedErrors(validationErrors) ELSE validationErrors

\* The value a call puts in the transaction store: ValidateResponse the
\* transaction it built, ValidateRequest the model request it was given.
StoredValue(kind, cleaned) ==
    IF kind = "response"
    THEN [what |-> "transaction", kind |-> "response", validation |-> cleaned]
    ELSE [what |-> "modelRequest", kind |-> "request", validation |-> <<>>]

NoEntry == [what |-> "none", kind |-> "", validation |-> <<>>]

\* The value a call returns: ValidateResponse the validator's list,
\* ValidateRequest the copied list.
Returned(kind, validationErrors, cleaned) ==
    IF kind = "response" THEN validationErrors ELSE cleaned

BroadcastName(kind, cleaned) ==
    IF Len(cleaned) > 0
    THEN (IF kind = "response" THEN "broadcastResponseValidationErrors"
          ELSE "broadcastRequestValidationErrors")
    ELSE (IF kind = "response" THEN "broadcastResponse" ELSE "broadcastRequest")

-----------------------------------------------------------------------------
(* Initial states.                                                          *)

\* The variables of a subsystem that a specification leaves alone.
MockIdle ==
    /\ mockDefinitions = <<>>
    /\ mphase = "ready"
    /\ received = NoRequest
    /\ synth = NoPanic
    /\ request = NoRequest
    /\ matched = 0
    /\ recovered = NoPanic
    /\ delivered = <<>>
    /\ escaped = FALSE
    /\ sink = SinksReturn

ProbeIdle ==
    /\ probeMock = Sel("", "", "", Absent, Absent, Absent)
    /\ probeReq = NoRequest
    /\ probeRes = Unset

\* The pieces of the configurations the streamer is started with.
MinutePattern == <<"YYYY", "-", "MM", "-", "DD", "-", "HH", "-", "mm">>
SecondPattern == <<"HH", "mm", "SS">>
NoTokenPattern == <<"-">>
HourPattern == <<"YYYY", "-", "MM", "-", "DD", "-", "HH">>
DayPattern == <<"YY", "MM", "DD">>

BeforeMinute == Time(2024, 2, 29, 12, 0, 59)
BeforeYear == Time(2024, 12, 31, 23, 59, 59)
BeforeHalfHour == Time(2024, 2, 29, 12, 29, 59)
LateOnFallBackDay == Time(2024, 11, 3, 22, 59, 59)

\* A report left by an earlier run: one violation.
OldReport == <<"[">> \o Marshal("o") \o <<"]">>

NoFiles == [n \in {} |-> <<>>]

\* The name openReportFile gives the file at time t.
NameAt(rf, t) ==
    IF rf.placeholder
    THEN FileName(Format(convertPatternToGoTimeFormat(rf.pattern).formatted, t))
    ELSE FileName(<<>>)

StreamConfig(rf, st, t, old) ==
    [reportFile |-> rf, stream |-> st, now |-> t, location |-> UTC,
     files |-> IF old THEN (NameAt(rf, t) :> OldReport) ELSE NoFiles]

\* The same for a wall clock in a zone other than UTC.
ZonedConfig(rf, t, loc) ==
    [StreamConfig(rf, TRUE, t, FALSE) EXCEPT !.location = loc]

StreamConfigs ==
    {StreamConfig(ReportFile(FALSE, <<>>), TRUE, BeforeMinute, TRUE),
     StreamConfig(ReportFile(TRUE, MinutePattern), TRUE, BeforeMinute, TRUE),
     StreamConfig(ReportFile(TRUE, SecondPattern), TRUE, BeforeYear, FALSE),
     StreamConfig(ReportFile(TRUE, NoTokenPattern), TRUE, BeforeMinute, FALSE),
     StreamConfig(ReportFile(TRUE, MinutePattern), FALSE, BeforeMinute, FALSE),
     ZonedConfig(ReportFile(TRUE, HourPattern), BeforeHalfHour, Kolkata),
     ZonedConfig(ReportFile(TRUE, DayPattern), LateOnFallBackDay, NewYork)}

\* The number of violations in a report an earlier run left.
OldCount(content) == IF content = OldReport THEN 1 ELSE 0

StreamIdle ==
    /\ reportFile = ReportFile(FALSE, <<>>)
    /\ stream = FALSE
    /\ now = NoTime
    /\ location = UTC
    /\ ticks = 0
    /\ spc = "start"
    /\ f = 0
    /\ rotateAt = NoTime
    /\ handles = <<>>
    /\ files = NoFiles
    /\ streamChan = <<>>
    /\ streamViolations = <<>>
    /\ writes = {}
    /\ written = NoFiles
    /\ vpc = [c \in VCalls |-> "idle"]
    /\ vin = [c \in VCalls |-> NoInput]
    /\ vout = [c \in VCalls |-> NoOut]
    /\ transactionStore = [id \in {1, 2} |-> NoEntry]
    /\ snapshot = <<>>

InitMock ==
    /\ mockDefinitions \in MockLists
    /\ mphase = "ready"
    /\ received = NoRequest
    /\ synth = NoPanic
    /\ request = NoRequest
    /\ matched = 0
    /\ recovered = NoPanic
    /\ delivered = <<>>
    /\ escaped = FALSE
    /\ sink = SinksReturn
    /\ ProbeIdle
    /\ ApiIdle
    /\ StreamIdle

\* The mock handler in front of a downstream that may panic.
InitSink ==
    /\ mockDefinitions \in MockLists
    /\ mphase = "ready"
    /\ received = NoRequest
    /\ synth = NoPanic
    /\ request = NoRequest
    /\ matched = 0
    /\ recovered = NoPanic
    /\ delivered = <<>>
    /\ escaped = FALSE
    /\ sink \in SinkBehaviours
    /\ ProbeIdle
    /\ ApiIdle
    /\ StreamIdle

InitProbe ==
    /\ probeMock \in MatchSelectors
    /\ probeReq \in MatchRequests
    /\ probeRes = Unset
    /\ MockIdle
    /\ ApiIdle
    /\ StreamIdle

InitStream ==
    /\ \E cfg \in StreamConfigs :
        /\ reportFile = cfg.reportFile
        /\ stream = cfg.stream
        /\ now = cfg.now
        /\ location = cfg.location
        /\ files = cfg.files
        /\ written = [n \in DOMAIN cfg.files |-> OldCount(cfg.files[n])]
    /\ ticks = 0
    /\ spc = "start"
    /\ f = 0
    /\ rotateAt = NoTime
    /\ handles = <<>>
    /\ streamChan = <<>>
    /\ streamViolations = <<>>
    /\ writes = {}
    /\ vpc = [c \in VCalls |-> "idle"]
    /\ vin = [c \in VCalls |-> NoInput]
    /\ vout = [c \in VCalls |-> NoOut]
    /\ transactionStore = [id \in {1, 2} |-> NoEntry]
    /\ snapshot = <<>>
    /\ MockIdle
    /\ ProbeIdle
    /\ ApiIdle

\* The streamer with one rotating report and a snapshot reader beside it.
InitSnapshot ==
    /\ reportFile = ReportFile(TRUE, SecondPattern)
    /\ stream \in BOOLEAN
    /\ now = BeforeYear
    /\ location = UTC
    /\ files = NoFiles
    /\ written = NoFiles
    /\ ticks = 0
    /\ spc = "start"
    /\ f = 0
    /\ rotateAt = NoTime
    /\ handles = <<>>
    /\ streamChan = <<>>
    /\ streamViolations = <<>>
    /\ writes = {}
    /\ vpc = [c \in VCalls |-> "idle"]
    /\ vin = [c \in VCalls |-> NoInput]
    /\ vout = [c \in VCalls |-> NoOut]
    /\ transactionStore = [id \in {1, 2} |-> NoEntry]
    /\ snapshot = <<>>
    /\ MockIdle
    /\ ProbeIdle
    /\ ApiIdle

InitApi ==
    /\ ApiIdle
    /\ MockIdle
    /\ ProbeIdle
    /\ StreamIdle

-----------------------------------------------------------------------------
(* Actions of the mock subsystem.                                           *)

\* One run of handleStaticMockRequest on an incoming request.
HandleStaticMockRequest ==
    /\ mphase = "ready"
    /\ \E req \in Requests, synthPanic \in SynthPanics :
        LET o == handleStaticMockRequest(mockDefinitions, req, synthPanic, sink)
        IN  /\ synthPanic.kind # "none" => o.matched > 0
            /\ received' = req
            /\ synth' = synthPanic
            /\ request' = o.request
            /\ matched' = o.matched
            /\ recovered' = o.recovered
            /\ delivered' = o.delivered
            /\ escaped' = o.escaped
    /\ mphase' = "handled"
    /\ UNCHANGED <<mockDefinitions, sink, probeVars, apiVars, streamVars, validateVars,
                   readerVars>>

\* The pipeline takes the next request.
NextRequest ==
    /\ mphase = "handled"
    /\ mphase' = "ready"
    /\ received' = NoRequest
    /\ synth' = NoPanic
    /\ request' = NoRequest
    /\ matched' = 0
    /\ recovered' = NoPanic
    /\ delivered' = <<>>
    /\ escaped' = FALSE
    /\ UNCHANGED <<mockDefinitions, sink, probeVars, apiVars, streamVars, validateVars,
                   readerVars>>

\* isRequestMatch applied to the selector and the request.
ProbeMatch ==
    /\ probeRes.res = "unset"
    /\ probeRes' = isRequestMatch(probeMock, probeReq)
    /\ UNCHANGED <<probeMock, probeReq, mockVars, apiVars, streamVars, validateVars, readerVars>>

-----------------------------------------------------------------------------
(* Actions of callAPI.                                                      *)

\* callAPI up to client.Do: a transport is made, the request cloned and its
\* Referer rewritten.
CallAPIStart(c) ==
    /\ apiPc[c] = "idle"
    /\ \E req \in ApiRequests :
        /\ apiReq' = [apiReq EXCEPT ![c] = req]
        /\ newReq' = [newReq EXCEPT ![c] = RewriteReferer(req, RedirectConfig)]
    /\ trOf' = [trOf EXCEPT ![c] = NewTransport(nextTr)]
    /\ capturedCookieHeaders' =
            [capturedCookieHeaders EXCEPT ![NewTransport(nextTr)] = <<>>]
    /\ nextTr' = nextTr + 1
    /\ apiPc' = [apiPc EXCEPT ![c] = "inflight"]
    /\ UNCHANGED <<chain, apiResult, mockVars, probeVars, streamVars,
                   validateVars, readerVars>>

\* A round trip inside client.Do that the client follows (a redirect).
RoundTripRedirect(c) ==
    /\ apiPc[c] = "inflight"
    /\ Len(chain[c]) < MaxHops
    /\ \E values \in SetCookieValues :
        /\ capturedCookieHeaders' =
                [capturedCookieHeaders EXCEPT
                    ![trOf[c]] = Capture(capturedCookieHeaders[trOf[c]], values)]
        /\ chain' = [chain EXCEPT ![c] = Append(@, values)]
    /\ UNCHANGED <<apiPc, apiReq, newReq, trOf, nextTr, apiResult, mockVars,
                   probeVars, streamVars, validateVars, readerVars>>

\* The last round trip: client.Do returns its response and callAPI promotes
\* the captured cookie onto it.
RoundTripFinal(c) ==
    /\ apiPc[c] = "inflight"
    /\ \E values \in SetCookieValues :
        LET captured == Capture(capturedCookieHeaders[trOf[c]], values)
        IN  /\ capturedCookieHeaders' =
                    [capturedCookieHeaders EXCEPT ![trOf[c]] = captured]
            /\ chain' = [chain EXCEPT ![c] = Append(@, values)]
            /\ apiResult' = [apiResult EXCEPT ![c] =
                    [returned |-> TRUE, err |-> FALSE,
                     SetCookie |-> Promote(captured, values)]]
    /\ apiPc' = [apiPc EXCEPT ![c] = "done"]
    /\ UNCHANGED <<apiReq, newReq, trOf, nextTr, mockVars, probeVars, streamVars,
                   validateVars, readerVars>>

\* A round trip fails: client.Do returns the error and callAPI returns it.
RoundTripError(c) ==
    /\ apiPc[c] = "inflight"
    /\ apiResult' = [apiResult EXCEPT ![c] =
            [returned |-> TRUE, err |-> TRUE, SetCookie |-> <<>>]]
    /\ apiPc' = [apiPc EXCEPT ![c] = "done"]
    /\ UNCHANGED <<apiReq, newReq, trOf, capturedCookieHeaders, nextTr, chain,
                   mockVars, probeVars, streamVars, validateVars, readerVars>>

-----------------------------------------------------------------------------
(* Actions of the report streamer and of the validator adapter.             *)

others == <<mockVars, probeVars, apiVars, readerVars>>

NewHandle(name) == [name |-> name, closes |-> 0]

\* Close() on handle h.
Close(hs, h) == [hs EXCEPT ![h].closes = @ + 1]

\* The violations counted for the file a successful open returns: a file that
\* was removed or did not exist starts at none.
Counted(rf, name, counts) ==
    IF rf.placeholder /\ name \in DOMAIN counts THEN counts
    ELSE (name :> 0) @@ counts

\* listenForValidationErrors: open the report file; start the consumer
\* goroutine unless that failed.
ListenForValidationErrors ==
    /\ spc = "start"
    /\ streamViolations' = <<>>
    /\ \E openOk \in BOOLEAN :
        LET o == openReportFile(reportFile, now, location, files, openOk)
        IN  /\ files' = o.files
            /\ IF o.err
               THEN /\ spc' = "failed"
                    /\ UNCHANGED <<f, rotateAt, handles, written>>
               ELSE /\ spc' = "running"
                    /\ handles' = Append(handles, NewHandle(o.name))
                    /\ f' = Len(handles) + 1
                    /\ rotateAt' = o.rotateAt
                    /\ written' = Counted(reportFile, o.name, written)
    /\ UNCHANGED <<reportFile, stream, location, now, ticks, streamChan, writes,
                   validateVars, others>>

\* "case violations := <-ws.streamChan": the batch is taken from the channel
\* and, when ws.stream is set, written to the file and appended to
\* ws.streamViolations.
Consume ==
    /\ spc = "running"
    /\ Len(streamChan) > 0
    /\ LET e == Head(streamChan)
           name == handles[f].name
       IN  IF stream
           THEN /\ files' = [files EXCEPT ![name] = AppendBatch(@, e.violations)]
                /\ streamViolations' = streamViolations \o e.violations
                /\ writes' = writes \cup
                        {[sentAt |-> e.sentAt, name |-> name, rotateAt |-> rotateAt]}
                /\ written' = [written EXCEPT ![name] = @ + Len(e.violations)]
           ELSE UNCHANGED <<files, streamViolations, writes, written>>
    /\ streamChan' = Tail(streamChan)
    /\ UNCHANGED <<reportFile, stream, location, now, ticks, spc, f, rotateAt, handles,
                   validateVars, mockVars, probeVars, apiVars>>

\* The consumer goroutine takes a batch while no snapshot is being read.
ConsumeViolations == Consume /\ UNCHANGED readerVars

\* An element of a slice that a racing reader finds not yet written.
Unwritten == "nil"

\* What a read of the slice ws.streamViolations can observe while
\* "ws.streamViolations = append(ws.streamViolations, violations...)" runs
\* without a lock shared with the reader: the slice before, the slice after,
\* or the new length over elements that are not visible yet.
RacingRead(before, after) ==
    {before, after,
     before \o [i \in 1..(Len(after) - Len(before)) |-> Unwritten]}

\* A snapshot reader reads ws.streamViolations while the consumer is between
\* batches.
ReadStreamViolations ==
    /\ spc # "start"
    /\ snapshot' = streamViolations
    /\ UNCHANGED <<streamVars, validateVars, mockVars, probeVars, apiVars>>

\* A snapshot reader reads ws.streamViolations while the consumer appends a
\* batch: the lock the consumer holds is a local of listenForValidationErrors,
\* so the read is not ordered with the append.
ReadDuringAppend ==
    /\ stream
    /\ Consume
    /\ snapshot' \in RacingRead(streamViolations, streamViolations')

\* The consumer goroutine, "case <-rotateChan": the timer has fired.  On a
\* failed open the goroutine returns and its deferred f.Close() runs on the
\* handle it was given at the start.
Rotate ==
    /\ spc = "running"
    /\ Len(handles) <= MaxRotations
    /\ rotateAt # NoTime
    /\ ~Before(now, rotateAt)
    /\ \E openOk \in BOOLEAN :
        LET o == openReportFile(reportFile, now, location, files, openOk)
            closed == Close(handles, f)
        IN  /\ files' = o.files
            /\ rotateAt' = o.rotateAt
            /\ IF o.err
               THEN /\ spc' = "exited"
                    /\ f' = 0
                    /\ handles' = Close(closed, 1)
                    /\ UNCHANGED written
               ELSE /\ spc' = "running"
                    /\ handles' = Append(closed, NewHandle(o.name))
                    /\ f' = Len(handles) + 1
                    /\ written' = Counted(reportFile, o.name, written)
    /\ UNCHANGED <<reportFile, stream, location, now, ticks, streamChan, streamViolations,
                   writes, validateVars, others>>

\* A second passes.
Tick ==
    /\ ticks < MaxTicks
    /\ ticks' = ticks + 1
    /\ now' = NextSecond(now)
    /\ UNCHANGED <<reportFile, stream, location, spc, f, rotateAt, handles, files, streamChan,
                   streamViolations, writes, written, validateVars, others>>

\* ValidateRequest / ValidateResponse up to the send on ws.streamChan: the
\* validator runs, the errors are cleaned, the transaction store is written;
\* with nothing to stream the call broadcasts and returns.  A panic of the
\* validator goes to the deferred recover().
ValidateStart(c) ==
    /\ vpc[c] = "idle"
    /\ spc # "start"
    /\ \E in \in VInputs :
        LET kind == CallKind(c)
            cleaned == Cleaned(kind, in.errs)
            put == PutEvent(CallId(c), StoredValue(kind, cleaned))
        IN  /\ vin' = [vin EXCEPT ![c] = in]
            /\ IF in.panic.kind # "none"
               THEN /\ vout' = [vout EXCEPT ![c] = Recover(kind, in.panic)]
                    /\ vpc' = [vpc EXCEPT ![c] = "done"]
                    /\ UNCHANGED transactionStore
               ELSE /\ transactionStore' =
                            [transactionStore EXCEPT ![CallId(c)] = put.value]
                    /\ IF Len(cleaned) > 0
                       THEN /\ vout' = [vout EXCEPT ![c] =
                                    VOut(<<put>>, FALSE, <<>>, FALSE)]
                            /\ vpc' = [vpc EXCEPT ![c] = "send"]
                       ELSE /\ vout' = [vout EXCEPT ![c] =
                                    VOut(<<put, BroadcastEvent(
                                                  BroadcastName(kind, cleaned), cleaned)>>,
                                         TRUE, Returned(kind, in.errs, cleaned), FALSE)]
                            /\ vpc' = [vpc EXCEPT ![c] = "done"]
    /\ UNCHANGED <<streamVars, others>>

\* "ws.streamChan <- cleanedErrors" and the rest of the call: the send goes
\* through when the channel has room; then the broadcast and the return.
ChanSend(c) ==
    /\ vpc[c] = "send"
    /\ Len(streamChan) < ChanCap
    /\ LET kind == CallKind(c)
           cleaned == Cleaned(kind, vin[c].errs)
       IN  /\ streamChan' = Append(streamChan,
                                   [violations |-> cleaned, sentAt |-> now])
           /\ vout' = [vout EXCEPT ![c] =
                  VOut(@.events \o <<SendEvent(cleaned),
                                     BroadcastEvent(BroadcastName(kind, cleaned),
                                                    cleaned)>>,
                       TRUE, Returned(kind, vin[c].errs, cleaned), FALSE)]
    /\ vpc' = [vpc EXCEPT ![c] = "done"]
    /\ UNCHANGED <<reportFile, stream, location, now, ticks, spc, f, rotateAt, handles, files,
                   streamViolations, writes, written, vin, transactionStore, others>>

-----------------------------------------------------------------------------
(* Specifications.                                                          *)

vars == <<mockVars, probeVars, apiVars, streamVars, validateVars, readerVars>>

NextMock == HandleStaticMockRequest \/ NextRequest

SpecMock == InitMock /\ [][NextMock]_vars

SpecSink == InitSink /\ [][NextMock]_vars

NextMatch == ProbeMatch

SpecMatch == InitProbe /\ [][NextMatch]_vars

NextApi ==
    \E c \in ApiCalls :
        \/ CallAPIStart(c)
        \/ RoundTripRedirect(c)
        \/ RoundTripFinal(c)
        \/ RoundTripError(c)

SpecApi == InitApi /\ [][NextApi]_vars

NextStream ==
    \/ ListenForValidationErrors
    \/ ConsumeViolations
    \/ Rotate
    \/ Tick
    \/ \E c \in VCalls : ValidateStart(c) \/ ChanSend(c)

SpecStream == InitStream /\ [][NextStream]_vars

NextSnapshot ==
    \/ ListenForValidationErrors
    \/ ConsumeViolations
    \/ ReadStreamViolations
    \/ ReadDuringAppend
    \/ Rotate
    \/ Tick
    \/ \E c \in VCalls : ValidateStart(c) \/ ChanSend(c)

SpecSnapshot == InitSnapshot /\ [][NextSnapshot]_vars

-----------------------------------------------------------------------------
(* Claims about the static mock handler (SpecMock).                         *)

\* Matching or response synthesis failed on the request just handled.
MockFailed ==
    /\ mphase = "handled"
    /\ \/ matched = -1
       \/ matched > 0 /\ synth.kind # "none"

ErrorBodyFields == {"message", "code", "type", "detail", "cause"}

\* C2 Mock panic isolation: whenever matching or response synthesis fails on a
\* request, handleStaticMockRequest makes exactly one downstream call, a
\* HandleStaticMockResponse with status 500 and a structured error body
\* {message, code, type, detail, cause}; the request is not forwarded to
\* HandleHttpRequest and no panic leaves the handler.
C2_MockPanicIsolation ==
    MockFailed =>
        /\ ~escaped
        /\ Len(delivered) = 1
        /\ delivered[1].call = "HandleStaticMockResponse"
        /\ delivered[1].StatusCode = 500
        /\ DOMAIN delivered[1].Body = ErrorBodyFields
        /\ delivered[1].Body.code = 500
        /\ delivered[1].Body.cause = recovered
        /\ recovered.kind # "none"

\* C2 witness: a JSON-body mock was compared against a request whose body is
\* malformed JSON, and the 500 was delivered.
C2_Witness ==
    /\ mphase = "handled"
    /\ matched = -1
    /\ received.body = "{bad"
    /\ recovered = PanicError(SyntaxErrText)
    /\ Len(delivered) = 1
    /\ delivered[1].StatusCode = 500
    /\ delivered[1].Body.message = SyntaxErrText

\* The verdict of a definition on the request as it was received.
HoldsAsReceived(def, req) == isRequestMatch(def.Request, req).res = "match"

\* The lowest index whose selectors hold for the request as received, 0 if none.
FirstHolding(defs, req) ==
    LET holding == {i \in DOMAIN defs : HoldsAsReceived(defs[i], req)}
    IN  IF holding = {} THEN 0
        ELSE CHOOSE i \in holding : \A j \in holding : i <= j

\* C3 First-match wins: when checkStaticMockExists returns, it returns the
\* lowest-index definition whose selectors all hold for the request as it was
\* received, and nil only if none holds.
C3_FirstMatchWins ==
    (mphase = "handled" /\ matched >= 0) =>
        matched = FirstHolding(mockDefinitions, received)

-----------------------------------------------------------------------------
(* Claims about isRequestMatch (SpecMatch).                                 *)

\* The entries without the key k.
Without(entries, k) == [x \in (DOMAIN entries) \ {k} |-> entries[x]]

\* The selectors obtained from m by removing one optional selector field, or
\* one entry of its Header or QueryParams.
Weakenings(m) ==
    {[m EXCEPT !.Host = ""], [m EXCEPT !.UrlPath = ""],
     [m EXCEPT !.Header = Absent], [m EXCEPT !.QueryParams = Absent],
     [m EXCEPT !.Body = Absent]}
    \cup (IF m.Header.t = "map"
          THEN {[m EXCEPT !.Header = JMap(Without(m.Header.v, k))] :
                    k \in DOMAIN m.Header.v}
          ELSE {})
    \cup (IF m.QueryParams.t = "map"
          THEN {[m EXCEPT !.QueryParams = JMap(Without(m.QueryParams.v, k))] :
                    k \in DOMAIN m.QueryParams.v}
          ELSE {})

\* C10 Matcher monotonicity (M1): when isRequestMatch accepts a request for a
\* selector, it accepts the same request for every selector obtained by
\* removing one optional field (Host, UrlPath, Header, QueryParams, Body) or
\* one Header/QueryParams entry.
C10_MatcherMonotonic ==
    probeRes.res = "match" =>
        \A w \in Weakenings(probeMock) :
            isRequestMatch(w, probeReq).res = "match"

\* C10 witness: a request accepted by a selector that defines every optional
\* field, with two header entries and two query entries.
C10_Witness ==
    /\ probeRes.res = "match"
    /\ probeMock.Host # ""
    /\ probeMock.UrlPath # ""
    /\ probeMock.Header.t = "map"
    /\ Cardinality(DOMAIN probeMock.Header.v) = 2
    /\ probeMock.QueryParams.t = "map"
    /\ Cardinality(DOMAIN probeMock.QueryParams.v) = 2
    /\ probeMock.Body.t = "object"

-----------------------------------------------------------------------------
(* Claims about callAPI (SpecApi).                                          *)

\* The first Set-Cookie value seen on the round trips of a chain, in round-trip
\* order; "" when no round trip carried one.
FirstSetCookie(ch) ==
    LET carrying == {i \in DOMAIN ch : Len(ch[i]) > 0}
    IN  IF carrying = {} THEN ""
        ELSE ch[CHOOSE i \in carrying : \A j \in carrying : i <= j][1]

\* The response of the last round trip of a chain.
FinalValues(ch) == ch[Len(ch)]

\* C4 Set-Cookie promotion (T1): the response of a successful callAPI carries
\* its own Set-Cookie values unchanged if it has any; otherwise the first
\* Set-Cookie captured on the round trips of this invocation, if there is one;
\* otherwise none.
C4_SetCookiePromotion ==
    \A c \in ApiCalls :
        (apiResult[c].returned /\ ~apiResult[c].err) =>
            apiResult[c].SetCookie =
                IF Len(FinalValues(chain[c])) > 0 THEN FinalValues(chain[c])
                ELSE IF FirstSetCookie(chain[c]) # ""
                THEN <<FirstSetCookie(chain[c])>>
                ELSE <<>>

\* C4 witness: two redirects that set different cookies, then a final response
\* without one; the first cookie was promoted.
C4_Witness ==
    \E c \in ApiCalls :
        /\ apiResult[c].returned /\ ~apiResult[c].err
        /\ chain[c] = << <<"s=1">>, <<"t=2", "u=3">>, <<>> >>
        /\ apiResult[c].SetCookie = <<"s=1">>

\* C9 Referer preservation: the request callAPI forwards carries, when the
\* input has a Referer, the input's Referer as X-Original-Referer and the
\* redirected URL of the request as Referer; when the input has none, no
\* Referer is added and X-Original-Referer is left as it came.
C9_RefererPreserved ==
    \A c \in ApiCalls :
        apiPc[c] # "idle" =>
            IF apiReq[c].Referer # NoUrl
            THEN /\ newReq[c].XOriginalReferer = apiReq[c].Referer
                 /\ newReq[c].Referer =
                        Url(RedirectConfig.protocol, RedirectConfig.host,
                            RedirectConfig.port, apiReq[c].url.path)
            ELSE /\ newReq[c].Referer = NoUrl
                 /\ newReq[c].XOriginalReferer = apiReq[c].XOriginalReferer

\* C9 witness: a forwarded request whose input carried a Referer and an older
\* X-Original-Referer.
C9_Witness ==
    \E c \in ApiCalls :
        /\ apiPc[c] # "idle"
        /\ apiReq[c].Referer = RefererUrl
        /\ apiReq[c].XOriginalReferer = StaleUrl
        /\ newReq[c].XOriginalReferer = RefererUrl
        /\ newReq[c].Referer.host = "upstream.test"

-----------------------------------------------------------------------------
(* Claims about the report streamer and the validator adapter (SpecStream). *)

\* The bytes that cannot be the inside of a marshalled violation.
Structural == {"[", "]", "{", "}", ",", "\n"}

\* Parsing bytes from position i on as VIOLATION ( ",\n" VIOLATION )* "]" and
\* nothing after: the number of violations plus n, or -1 when it does not parse.
RECURSIVE ParseElements(_, _, _)
ParseElements(bytes, i, n) ==
    IF i + 3 > Len(bytes) THEN -1
    ELSE IF ~(bytes[i] = "{" /\ bytes[i + 1] \notin Structural /\ bytes[i + 2] = "}")
    THEN -1
    ELSE IF bytes[i + 3] = "]"
    THEN (IF i + 3 = Len(bytes) THEN n + 1 ELSE -1)
    ELSE IF i + 4 <= Len(bytes) /\ bytes[i + 3] = "," /\ bytes[i + 4] = "\n"
    THEN ParseElements(bytes, i + 5, n + 1)
    ELSE -1

\* The length of the JSON array the bytes are, -1 when they are not a JSON array
\* of violations.
ParseArray(bytes) ==
    IF Len(bytes) < 2 \/ bytes[1] # "[" THEN -1
    ELSE IF Len(bytes) = 2 THEN (IF bytes[2] = "]" THEN 0 ELSE -1)
    ELSE ParseElements(bytes, 2, 0)

\* C1 Report well-formedness: after any sequence of batches, every report file
\* the streamer has opened is a parseable JSON array whose length is the number
\* of violations written to it (a new file is "[]").
C1_ReportWellFormed ==
    \A name \in (DOMAIN files) \cap (DOMAIN written) :
        ParseArray(files[name]) = written[name]

\* C1 witness: after a rotation, a file that took two batches and holds three
\* violations or more.
C1_Witness ==
    /\ Len(handles) >= 2
    /\ \E name \in DOMAIN files :
        /\ ParseArray(files[name]) >= 3
        /\ Cardinality({w \in writes : w.name = name}) >= 2

\* The errors of a list that are not path-missing errors, in their order.
RECURSIVE NotPathMissing(_)
NotPathMissing(errs) ==
    IF errs = <<>> THEN <<>>
    ELSE IF Head(errs) = "p" THEN NotPathMissing(Tail(errs))
    ELSE <<Head(errs)>> \o NotPathMissing(Tail(errs))

\* C5 Path-missing filtering: a ValidateResponse call that returns has stored on
\* the transaction, pushed to the streamer channel and broadcast exactly the
\* validator's errors that are not path-missing, in their order (nothing is
\* pushed when none is left), and has returned the validator's full list.
C5_PathMissingFiltered ==
    \A c \in VCalls :
        (CallKind(c) = "response" /\ vout[c].returned /\ vin[c].panic.kind = "none") =>
            LET kept == NotPathMissing(vin[c].errs)
                ev == vout[c].events
            IN  /\ vout[c].result = vin[c].errs
                /\ ev[1].op = "Put"
                /\ ev[1].value.validation = kept
                /\ IF kept = <<>>
                   THEN /\ Len(ev) = 2
                        /\ ev[2].op = "broadcastResponse"
                   ELSE /\ Len(ev) = 3
                        /\ ev[2].op = "send" /\ ev[2].errors = kept
                        /\ ev[3].op = "broadcastResponseValidationErrors"
                        /\ ev[3].errors = kept

\* C5 witness: the validator gave a schema error, a path-missing error and
\* another schema error; the call returned all three and reported two.
C5_Witness ==
    \E c \in VCalls :
        /\ CallKind(c) = "response"
        /\ vout[c].returned
        /\ vin[c].errs = <<"a", "p", "b">>
        /\ vout[c].result = <<"a", "p", "b">>
        /\ Len(vout[c].events) = 3
        /\ vout[c].events[2].errors = <<"a", "b">>

\* C6 Validator panic safety: whatever value a panic inside ValidateRequest or
\* ValidateResponse carries, the call returns normally with the single
\* ValidationError "Error validating {request|response}: <text>" and the panic
\* does not reach the caller.
C6_ValidatorPanicSafe ==
    \A c \in VCalls :
        (vpc[c] = "done" /\ vin[c].panic.kind # "none") =>
            /\ ~vout[c].escaped
            /\ Len(vout[c].result) = 1
            /\ vout[c].result[1].text = vin[c].panic.text
            /\ vout[c].result[1].prefix =
                    (IF CallKind(c) = "request" THEN "Error validating request: "
                     ELSE "Error validating response: ")

\* The streamer has stopped consuming and call c waits at its send with the
\* channel full.
Blocked(c) ==
    /\ spc \in {"failed", "exited"}
    /\ vpc[c] = "send"
    /\ Len(streamChan) >= ChanCap

\* C7 Streamer failure does not stop the pipeline: once the streamer has exited
\* because the report file could not be opened, no validation call waits on the
\* streamer channel; it broadcasts and returns.
C7_NoCallBlockedAfterStreamerExit == \A c \in VCalls : ~Blocked(c)

\* A call blocked after the streamer's exit stays blocked.
BlockedForever == [][\A c \in VCalls : Blocked(c) => Blocked(c)']_vars

\* C8 Rotation places batches by period: a batch submitted to the streamer
\* channel at or after the rollover boundary of a file, when its timer has
\* fired, is not written to that file.
C8_BatchesPlacedByPeriod ==
    \A w \in writes : w.rotateAt = NoTime \/ Before(w.sentAt, w.rotateAt)

-----------------------------------------------------------------------------
(* Claims about the request body and the Content-Type of a matched request. *)

\* C11 Body restored after matching: after a selector with a string, JSON
\* object or JSON array body has been evaluated against a request whose body
\* can be read, the request still yields its original body bytes, whether the
\* selector matched or not.
C11_BodyRestoredAfterMatching ==
    (/\ probeRes.res # "unset"
     /\ probeMock.Body.t \in {"string", "object", "array"}
     /\ ~probeReq.bodyErr)
        => probeRes.req.body = probeReq.body

\* A definition whose body selector is a JSON object or a JSON array.
JsonBodied(def) == def.Request.Body.t \in {"object", "array"}

\* C12 Mock miss by Content-Type: a request whose Content-Type is not
\* application/json never matches a definition whose body selector is a JSON
\* object or array, whatever its body is; when every definition is of that
\* kind no failure is raised and the request is forwarded upstream.
C12_MissByContentType ==
    (/\ mphase = "handled"
     /\ HeaderGet(received.Header, "Content-Type") # "application/json")
        => /\ matched > 0 => ~JsonBodied(mockDefinitions[matched])
           /\ (\A i \in DOMAIN mockDefinitions : JsonBodied(mockDefinitions[i]))
                => /\ matched = 0
                   /\ recovered = NoPanic
                   /\ ~escaped
                   /\ delivered = <<HandleHttpRequestCall>>

\* C12 witness: POST /a with Content-Type text/plain and body {"x":1} against
\* a definition whose body selector is {"x":1} was forwarded upstream.
C12_Witness ==
    /\ mphase = "handled"
    /\ Len(mockDefinitions) = 1
    /\ mockDefinitions[1].Request.Body = JObj("x" :> JNum(1))
    /\ HeaderGet(received.Header, "Content-Type") = "text/plain"
    /\ received.body = "{\"x\":1}"
    /\ delivered = <<HandleHttpRequestCall>>

-----------------------------------------------------------------------------
(* Claims about the order of a validation call's effects.                   *)

\* The broadcasts among the events of a call.
Broadcasts(ev) == SelectSeq(ev, LAMBDA e : e.op \notin {"Put", "send"})

\* The broadcast a call owes: the validation-errors one when its cleaned batch
\* is not empty, the plain one otherwise.
OwedBroadcast(c) ==
    LET errs == IF CallKind(c) = "response" THEN NotPathMissing(vin[c].errs)
                ELSE vin[c].errs
    IN  IF CallKind(c) = "response"
        THEN (IF errs = <<>> THEN "broadcastResponse"
              ELSE "broadcastResponseValidationErrors")
        ELSE (IF errs = <<>> THEN "broadcastRequest"
              ELSE "broadcastRequestValidationErrors")

\* C13 Store before broadcast: in a ValidateRequest or ValidateResponse call
\* that does not panic, the first effect is the transaction store Put for the
\* request id and the broadcast comes after it; a call that has returned has
\* made exactly one broadcast, the validation-errors broadcast when its cleaned
\* batch is not empty and the plain one otherwise.
C13_StoreBeforeBroadcast ==
    \A c \in VCalls :
        (vpc[c] # "idle" /\ vin[c].panic.kind = "none") =>
            LET ev == vout[c].events
            IN  /\ Len(ev) >= 1
                /\ ev[1].op = "Put" /\ ev[1].id = CallId(c)
                /\ transactionStore[CallId(c)] # NoEntry
                /\ Len(Broadcasts(ev)) <= 1
                /\ vout[c].returned =>
                      /\ Len(Broadcasts(ev)) = 1
                      /\ ev[Len(ev)].op = OwedBroadcast(c)

\* C13 witness: a ValidateRequest call with errors and a ValidateResponse call
\* with none have both returned, each after its Put and its broadcast.
C13_Witness ==
    /\ vout[1].returned /\ vin[1].panic.kind = "none" /\ vin[1].errs # <<>>
    /\ Len(vout[1].events) = 3
    /\ vout[1].events[3].op = "broadcastRequestValidationErrors"
    /\ vout[2].returned /\ vin[2].panic.kind = "none" /\ vin[2].errs = <<"p">>
    /\ Len(vout[2].events) = 2
    /\ vout[2].events[2].op = "broadcastResponse"

-----------------------------------------------------------------------------
(* Claims about the in-memory list of streamed violations.                  *)

\* Sequence a is a prefix of sequence b.
IsPrefix(a, b) == Len(a) <= Len(b) /\ \A i \in 1..Len(a) : a[i] = b[i]

\* C14 StreamViolations consistent prefix: a snapshot reader running beside
\* the streamer always observes a prefix of streamViolations, the
\* concatenation of the batches consumed so far.
C14_SnapshotIsPrefix == IsPrefix(snapshot, streamViolations)

\* streamViolations only grows, by the batch consumed, rotation or not.
StreamViolationsAppendOnly ==
    [][IsPrefix(streamViolations, streamViolations')]_vars

-----------------------------------------------------------------------------
(* Claims about what ValidateRequest stores.                                *)

\* C15 ValidateRequest persists the transaction: the value a ValidateRequest
\* call that does not panic puts in the transaction store under the request id
\* is the transaction record it built, carrying the request-validation errors
\* of the call.
C15_RequestTransactionPersisted ==
    \A c \in VCalls :
        (CallKind(c) = "request" /\ vpc[c] # "idle" /\ vin[c].panic.kind = "none") =>
            /\ vout[c].events[1].op = "Put"
            /\ vout[c].events[1].id = CallId(c)
            /\ vout[c].events[1].value.what = "transaction"
            /\ vout[c].events[1].value.validation = vin[c].errs

-----------------------------------------------------------------------------
(* Claims about the typing of header and query selectors.                   *)

\* What one selector entry with value v requires of the request's values for
\* its key: a string must be among them, every element of an array must be
\* among them, a value of any other type is never satisfied.
EntryRequirement(v, values) ==
    LET have == {values[i] : i \in DOMAIN values}
    IN  CASE v.t = "string" -> v.v \in have
          [] v.t = "array" -> \A i \in DOMAIN v.v : v.v[i].v \in have
          [] OTHER -> FALSE

\* C16 Header and query selector typing: a selector matches a request only if
\* every entry of its Header and of its QueryParams meets its requirement: a
\* string is among the request's values for the key, the elements of an array
\* all are, and there is no entry of any other type.
C16_SelectorTyping ==
    probeRes.res = "match" =>
        /\ probeMock.Header.t # "absent" =>
              \A k \in DOMAIN probeMock.Header.v :
                  EntryRequirement(probeMock.Header.v[k], Values(probeReq.Header, k))
        /\ probeMock.QueryParams.t # "absent" =>
              \A k \in DOMAIN probeMock.QueryParams.v :
                  EntryRequirement(probeMock.QueryParams.v[k],
                                   Values(probeReq.Query, k))

\* The same with entries of other types left out: strings and arrays are
\* compared as the selector says.
StringAndArrayEntriesCompared ==
    probeRes.res = "match" =>
        /\ probeMock.Header.t # "absent" =>
              \A k \in DOMAIN probeMock.Header.v :
                  probeMock.Header.v[k].t \in {"string", "array"} =>
                      EntryRequirement(probeMock.Header.v[k],
                                       Values(probeReq.Header, k))
        /\ probeMock.QueryParams.t # "absent" =>
              \A k \in DOMAIN probeMock.QueryParams.v :
                  probeMock.QueryParams.v[k].t \in {"string", "array"} =>
                      EntryRequirement(probeMock.QueryParams.v[k],
                                       Values(probeReq.Query, k))

-----------------------------------------------------------------------------
(* Claims about the report file handle.                                     *)

\* The handles that are open: opened and not closed.
OpenHandles == {h \in DOMAIN handles : handles[h].closes = 0}

\* At most one report file is open, it is the one the consumer writes to, and
\* none is left open once the consumer has exited.
AtMostOneOpen ==
    /\ OpenHandles \subseteq {f}
    /\ spc = "running" => OpenHandles = {f}

\* C17 Single owned file handle: at most one report file is open at any time,
\* it is the streamer's current file, no handle stays open after the consumer
\* goroutine has exited, and no handle is closed twice.
C17_SingleOwnedHandle ==
    /\ AtMostOneOpen
    /\ \A h \in DOMAIN handles : handles[h].closes <= 1

-----------------------------------------------------------------------------
(* Claims about the rollover cadence.                                       *)

\* The time unit a placeholder token stands for.
TokenUnit(tok) ==
    CASE tok \in {"YYYY", "YY"} -> YEAR
      [] tok = "MM" -> MONTH
      [] tok = "DD" -> DAY
      [] tok = "HH" -> HOUR
      [] tok = "mm" -> MINUTE
      [] tok = "SS" -> SECOND

Tokens == {"YYYY", "YY", "MM", "DD", "HH", "mm", "SS"}

TokensOf(pattern) == {pattern[i] : i \in DOMAIN pattern} \cap Tokens

\* The smallest unit among the tokens of a pattern that has one.
SmallestUnitOf(pattern) ==
    CHOOSE u \in {TokenUnit(tok) : tok \in TokensOf(pattern)} :
        \A tok \in TokensOf(pattern) : u <= TokenUnit(tok)

\* The next boundary of a unit on the wall clock, strictly after t.
NextBoundary(unit, t) ==
    CASE unit = SECOND -> NextSecond(t)
      [] unit = MINUTE -> NextMinute(t)
      [] unit = HOUR -> NextHour(t)
      [] unit = DAY -> NextDay(t)
      [] unit = MONTH -> NextMonth(t)
      [] unit = YEAR -> NextYear(t)

\* A step that opens a report file named by a placeholder arms the timer for
\* the next boundary of the smallest unit of the pattern, strictly after now.
OpensOnCadence ==
    (Len(handles') > Len(handles) /\ reportFile.placeholder) =>
        /\ Before(now', rotateAt')
        /\ rotateAt' = NextBoundary(SmallestUnitOf(reportFile.pattern), now')

\* The streamer does not start on a placeholder without a token.
RejectsNoToken ==
    (spc = "start" /\ reportFile.placeholder /\ TokensOf(reportFile.pattern) = {}) =>
        spc' \in {"start", "failed"}

\* C18 Rollover cadence selection: for a placeholder pattern built from the
\* tokens YYYY, YY, MM, DD, HH, mm, SS the rollover is armed for a time
\* strictly after now that is the next boundary of the smallest unit among the
\* tokens present; a pattern with no token is rejected and the streamer does
\* not start.
C18_RolloverCadence == [][OpensOnCadence /\ RejectsNoToken]_vars

\* The same on a wall clock read in UTC.
RolloverCadenceInUTC ==
    [][location = UTC => (OpensOnCadence /\ RejectsNoToken)]_vars

-----------------------------------------------------------------------------
(* Claims about a report file named without a placeholder.                  *)

\* C19 No placeholder, no rotation: with a report file name that has no
\* placeholder the file is exactly "[]" when it has been opened, whatever it
\* held before, no rollover timer is armed, and the streamer keeps the one
\* handle on that file: every batch is written to it and no rotation is taken.
C19_NoPlaceholderNoRotation ==
    ~reportFile.placeholder =>
        /\ \A w \in writes : w.name = FileName(<<>>) /\ w.rotateAt = NoTime
        /\ spc \notin {"start", "failed"} =>
              /\ spc = "running"
              /\ rotateAt = NoTime
              /\ Len(handles) = 1 /\ f = 1
              /\ handles[1] = NewHandle(FileName(<<>>))
              /\ writes = {} => files[FileName(<<>>)] = <<"[", "]">>

\* C19 witness: seconds after the open of a report file without placeholder,
\* two batches have been written to it.
C19_Witness ==
    /\ ~reportFile.placeholder
    /\ spc = "running"
    /\ ticks = MaxTicks
    /\ Cardinality(writes) >= 2
    /\ ParseArray(files[FileName(<<>>)]) >= 2

-----------------------------------------------------------------------------
(* Claims about concurrent callAPI invocations.                             *)

\* The Set-Cookie headers a transport captures on the round trips of a chain:
\* the first value of every response that carries one, in order.
RECURSIVE CapturedOn(_)
CapturedOn(ch) ==
    IF ch = <<>> THEN <<>>
    ELSE IF Len(Head(ch)) > 0 THEN <<Head(ch)[1]>> \o CapturedOn(Tail(ch))
    ELSE CapturedOn(Tail(ch))

\* The Set-Cookie values seen on the round trips of a chain.
CookiesOf(ch) == UNION {{ch[i][j] : j \in DOMAIN ch[i]} : i \in DOMAIN ch}

\* C20 Cookie capture isolation: under any interleaving of callAPI
\* invocations each invocation has a capture list of its own, which holds the
\* cookies of its own round trips only, and a Set-Cookie on the response it
\* returns comes from its own round trips.
C20_CookieCaptureIsolation ==
    /\ \A c, d \in ApiCalls :
          (c # d /\ apiPc[c] # "idle" /\ apiPc[d] # "idle") => trOf[c] # trOf[d]
    /\ \A c \in ApiCalls :
          apiPc[c] # "idle" =>
              /\ capturedCookieHeaders[trOf[c]] = CapturedOn(chain[c])
              /\ (apiResult[c].returned /\ ~apiResult[c].err) =>
                    \A i \in DOMAIN apiResult[c].SetCookie :
                        apiResult[c].SetCookie[i] \in CookiesOf(chain[c])

\* C20 witness: while one invocation is in flight with a captured cookie,
\* another one, started meanwhile, whose round trips set no cookie has
\* returned a response without Set-Cookie.
C20_Witness ==
    \E c, d \in ApiCalls :
        /\ c # d
        /\ apiPc[c] = "inflight"
        /\ capturedCookieHeaders[trOf[c]] = <<"s=1">>
        /\ apiResult[d].returned /\ ~apiResult[d].err
        /\ chain[d] = << <<>>, <<>> >>
        /\ apiResult[d].SetCookie = <<>>


-----------------------------------------------------------------------------
\* C21: every request handled by handleStaticMockRequest results in exactly
\* one downstream hand-off: HandleHttpRequest on a miss, otherwise one
\* HandleStaticMockResponse (the mock response on a hit, the 500 response on a
\* recovered failure), never both and never two responses, and this also when
\* the hand-off itself panics.
SinkPanicked ==
    /\ mphase = "handled"
    /\ sink.direct.kind # "none"
    /\ recovered = sink.direct

C21_ExactlyOneHandOff ==
    mphase = "handled" =>
        /\ Len(delivered) = 1
        /\ matched = 0 <=> delivered[1].call = "HandleHttpRequest"
        /\ matched # 0 <=> delivered[1].call = "HandleStaticMockResponse"

\* With a downstream whose hand-offs return, each request is handed off once.
C21_Witness ==
    /\ mphase = "handled"
    /\ sink = SinksReturn
    /\ Len(delivered) = 1

\* The state C21 excludes: the panicking hand-off is followed by the 500
\* response of the recover block.
C21_HandedOffTwice ==
    /\ SinkPanicked
    /\ Len(delivered) = 2
    /\ delivered[2].StatusCode = InternalServerError


-----------------------------------------------------------------------------
(* Claims about the store entry written by concurrent validations.          *)

\* Calls 1 (ValidateRequest) and 2 (ValidateResponse), both for request id 1,
\* have completed without a panic, in whichever order they ran.
BothValidationsCompleted ==
    /\ vpc[1] = "done" /\ vin[1].panic.kind = "none"
    /\ vpc[2] = "done" /\ vin[2].panic.kind = "none"

\* C22 Store entry is interleaving-independent: when ValidateRequest and
\* ValidateResponse for the same request id run as independent tasks, the
\* store entry for that id after both have completed is, in every
\* interleaving, the response-bearing transaction that ValidateResponse put;
\* the Put of ValidateRequest never replaces that record.
C22_StoreEntryInterleavingIndependent ==
    BothValidationsCompleted =>
        /\ transactionStore[1].what = "transaction"
        /\ transactionStore[1].kind = "response"
        /\ transactionStore[1] = vout[2].events[1].value

\* The interleaving in which the response-bearing transaction survives:
\* ValidateRequest made its Put before ValidateResponse did.
C22_ResponseWroteLast ==
    /\ BothValidationsCompleted
    /\ transactionStore[1] = vout[2].events[1].value

\* The interleaving C22 excludes: the entry left after both calls is the value
\* ValidateRequest put, the response record having been replaced.
C22_RequestWroteLast ==
    /\ BothValidationsCompleted
    /\ transactionStore[1] = vout[1].events[1].value
    /\ transactionStore[1].kind = "request"

=============================================================================
